---- MODULE Spec2Model ----
(***************************************************************************)
(* jc: a constant-memory JSON tokenizer (src/jc.h).                        *)
(*                                                                         *)
(* The engine state is struct jc_state_s; the operations are jc_init and   *)
(* jc_next_token.  The source buffer is a sequence of characters followed  *)
(* by the terminating null and by whatever bytes the caller's buffer holds *)
(* after it (tail); a read past the modelled memory is a fault.            *)
(* Offsets are 0-based as in C.  Token-type masks are sets of type names:  *)
(* `|` is \cup, `&` is \cap, 0 is {}.                                      *)
(***************************************************************************)
EXTENDS Integers, Sequences, FiniteSets, TLC

\* ------------------------------------------------------------------ bounds
MaxLen == 4         \* longest source enumerated exhaustively
MaxTail == 2        \* bytes of the caller's buffer modelled after the null
MaxStr == 4         \* longest string body enumerated exhaustively
MaxWord == 4        \* longest word of literal letters enumerated exhaustively

\* --------------------------------------------------------------- constants
JC_MAX_NESTING_LEVEL == 8

JC_TOKEN_TYPE_NUMBER == {"NUMBER"}
JC_TOKEN_TYPE_STRING == {"STRING"}
JC_TOKEN_TYPE_TRUE == {"TRUE"}
JC_TOKEN_TYPE_FALSE == {"FALSE"}
JC_TOKEN_TYPE_NULL == {"NULL"}
JC_TOKEN_TYPE_ARRAY_START == {"ARRAY_START"}
JC_TOKEN_TYPE_ARRAY_END == {"ARRAY_END"}
JC_TOKEN_TYPE_OBJECT_START == {"OBJECT_START"}
JC_TOKEN_TYPE_OBJECT_END == {"OBJECT_END"}
JC_TOKEN_TYPE_FIELD_NAME == {"FIELD_NAME"}
JC_TOKEN_TYPE_COMMA == {"COMMA"}
JC_TOKEN_TYPE_COLON == {"COLON"}

JC_RESULT_OK == "OK"
JC_RESULT_EOF == "EOF"
JC_RESULT_ERR_CANT_INIT == "ERR_CANT_INIT"
JC_RESULT_ERR_UNEXPECTED_TOKEN == "ERR_UNEXPECTED_TOKEN"
JC_RESULT_ERR_UNEXPECTED_EOF == "ERR_UNEXPECTED_EOF"
JC_RESULT_ERR_GARBAGE == "ERR_GARBAGE"
JC_RESULT_ERR_MAX_NESTING_REACHED == "ERR_MAX_NESTING_REACHED"
JC_RESULT_ERR_CORRUPTED_STATE == "ERR_CORRUPTED_STATE"

JC_NO_TOKENS_EXPECTED == {}
JC_NO_NESTING_LEVEL == 0 - 1

JC_TOKEN_TYPE_VALUE ==
    JC_TOKEN_TYPE_NUMBER \cup JC_TOKEN_TYPE_STRING \cup JC_TOKEN_TYPE_TRUE
    \cup JC_TOKEN_TYPE_FALSE \cup JC_TOKEN_TYPE_NULL
    \cup JC_TOKEN_TYPE_ARRAY_START \cup JC_TOKEN_TYPE_OBJECT_START

JC_CHAR_NULL == "NUL"
JC_CHAR_OBJECT_START == "{"
JC_CHAR_OBJECT_END == "}"
JC_CHAR_ARRAY_START == "["
JC_CHAR_ARRAY_END == "]"
JC_CHAR_COMMA == ","
JC_CHAR_COLON == ":"
JC_CHAR_DQUOTE == "\""
JC_CHAR_BACKSLASH == "\\"

JC_LIT_TRUE == <<"t", "r", "u", "e">>
JC_LIT_FALSE == <<"f", "a", "l", "s", "e">>
JC_LIT_NULL == <<"n", "u", "l", "l">>

JC_VALID_CHARS_IN_NUMBER ==
    <<"0", "1", "2", "3", "4", "5", "6", "7", "8", "9", "-", "+", "e", "E", ".">>

JC_NESTING_TYPE_OBJECT == "OBJECT"
JC_NESTING_TYPE_ARRAY == "ARRAY"

\* ------------------------------------------------------- memory and libc
\* What a read outside the modelled memory gives: the process faults.
FAULT == "FAULT"
\* The outcome of a call that faulted (not a jc_result: the call never returns).
SEGV == "SEGV"
\* Content of a nesting_stack slot jc_init left unwritten.
UNINIT == "UNINIT"
NULLPTR == 0 - 1
BADPTR == 0 - 2

\* The memory the source pointer gives access to: the source, its
\* terminating null, and the rest of the caller's buffer.
Mem(src, tl) == src \o <<JC_CHAR_NULL>> \o tl

\* state->source[i]
MemAt(m, i) == IF i >= 0 /\ i < Len(m) THEN m[i + 1] ELSE FAULT

\* isspace() in the "C" locale
isspace(c) == c \in {" ", "\t", "\n", "\r", "\f", "VT"}

\* strchr(str, c) != NULL; the terminating null of str is part of str
strchr(str, c) == c = JC_CHAR_NULL \/ \E i \in 1..Len(str) : str[i] = c

\* strlen of a literal
strlen(literal) == Len(literal)

\* strncmp(m + pos, literal, n): 0 = equal, 1 = different, BADPTR = fault;
\* the comparison stops at the first difference
RECURSIVE strncmp_from(_, _, _, _, _)
strncmp_from(m, pos, literal, n, i) ==
    IF i >= n THEN 0
    ELSE IF MemAt(m, pos + i) = FAULT THEN BADPTR
    ELSE IF MemAt(m, pos + i) # literal[i + 1] THEN 1
    ELSE strncmp_from(m, pos, literal, n, i + 1)

strncmp(m, pos, literal, n) == strncmp_from(m, pos, literal, n, 0)

\* ---------------------------------------------------------------- engine
VARIABLES
    source,                 \* the characters before the terminating null
    tail,                   \* the caller's buffer after the terminating null
    observed,               \* TRUE once a read went past the terminating null
    source_pos,             \* jc_state_s.source_pos
    nesting_stack,          \* jc_state_s.nesting_stack
    nesting_level,          \* jc_state_s.nesting_level
    expected_token_types,   \* jc_state_s.expected_token_types
    token,                  \* the caller's jc_token slot
    result,                 \* the jc_result of the last call
    history,                \* the tokens the driver loop has printed
    scan_end                \* the result that ended the driver loop

vars == <<source, tail, observed, source_pos, nesting_stack, nesting_level,
          expected_token_types, token, result, history, scan_end>>

RUNNING == "RUNNING"

\* struct jc_state_s (without the source pointer)
jc_state ==
    [source_pos |-> source_pos,
     nesting_stack |-> nesting_stack,
     nesting_level |-> nesting_level,
     expected_token_types |-> expected_token_types]

\* The driver's  jc_token token;  before the first call.
EmptySlot == [type |-> {}, start |-> 0, end |-> 0]
\* A null token pointer: the caller passed no slot.
NoSlot == [type |-> {}, start |-> 0 - 1, end |-> 0 - 1]

Ret(r, st, tok) == [result |-> r, state |-> st, token |-> tok]

\* A null jc_state pointer and a null source pointer.
NullState ==
    [source_pos |-> 0 - 1,
     nesting_stack |-> <<>>,
     nesting_level |-> JC_NO_NESTING_LEVEL,
     expected_token_types |-> JC_NO_TOKENS_EXPECTED]
NullSource == <<"NULLPTR">>

\* The driver's  jc_state jc;  before jc_init: nothing is written yet.
UninitState ==
    [source_pos |-> 0,
     nesting_stack |-> [i \in 0..(JC_MAX_NESTING_LEVEL - 1) |-> UNINIT],
     nesting_level |-> JC_NO_NESTING_LEVEL,
     expected_token_types |-> JC_NO_TOKENS_EXPECTED]

\* jc_init that leaves the nesting level of the previous scan in place.
jc_init_keeps_level(st, src) ==
    IF st = NullState \/ src = NullSource
    THEN [result |-> JC_RESULT_ERR_CANT_INIT, state |-> st, source |-> src]
    ELSE [result |-> JC_RESULT_OK,
          state |-> [st EXCEPT !.source_pos = 0,
                               !.expected_token_types = JC_TOKEN_TYPE_VALUE],
          source |-> src]

\* jc_init(state, source): the result, the state and the source it holds
\* afterwards.  The nesting stack is not written.
jc_init(st, src) ==
    IF st = NullState \/ src = NullSource
    THEN [result |-> JC_RESULT_ERR_CANT_INIT, state |-> st, source |-> src]
    ELSE [result |-> JC_RESULT_OK,
          state |-> [st EXCEPT !.source_pos = 0,
                               !.nesting_level = JC_NO_NESTING_LEVEL,
                               !.expected_token_types = JC_TOKEN_TYPE_VALUE],
          source |-> src]

jc_make_token(st, tok, type, len) ==
    IF tok # NoSlot
    THEN [type |-> type, start |-> st.source_pos, end |-> st.source_pos + len]
    ELSE tok

\* jc_advance_source_pos with  =  for  += .
jc_advance_source_pos_assign(st, num_of_chars) ==
    [st EXCEPT !.source_pos = num_of_chars]

jc_advance_source_pos(st, num_of_chars) ==
    [st EXCEPT !.source_pos = @ + num_of_chars]

\* jc_expect_next that adds to the expected set instead of replacing it.
jc_expect_next_accumulates(st, expected) ==
    [st EXCEPT !.expected_token_types = @ \cup expected]

jc_expect_next(st, expected) ==
    [st EXCEPT !.expected_token_types = expected]

\* jc_is_expected without the special case for JC_NO_TOKENS_EXPECTED.
jc_is_expected_mask_only(st, type) ==
    (st.expected_token_types \cap type) # {}

jc_is_expected(st, type) ==
    IF type = JC_NO_TOKENS_EXPECTED
    THEN st.expected_token_types = type
    ELSE (st.expected_token_types \cap type) # {}

RECURSIVE jc_skip_whitespace(_, _)
jc_skip_whitespace(m, st) ==
    IF isspace(MemAt(m, st.source_pos))
    THEN jc_skip_whitespace(m, [st EXCEPT !.source_pos = @ + 1])
    ELSE st

\* jc_nest without the capacity test.
jc_nest_unchecked(st, type) ==
    [result |-> JC_RESULT_OK,
     state |-> [st EXCEPT !.nesting_level = @ + 1,
                          !.nesting_stack[st.nesting_level + 1] = type]]

\* jc_nest with the capacity test off by one.
jc_nest_off_by_one(st, type) ==
    IF st.nesting_level > JC_MAX_NESTING_LEVEL - 1
    THEN [result |-> JC_RESULT_ERR_MAX_NESTING_REACHED, state |-> st]
    ELSE [result |-> JC_RESULT_OK,
          state |-> [st EXCEPT !.nesting_level = @ + 1,
                               !.nesting_stack[st.nesting_level + 1] = type]]

jc_nest(st, type) ==
    IF st.nesting_level >= JC_MAX_NESTING_LEVEL - 1
    THEN [result |-> JC_RESULT_ERR_MAX_NESTING_REACHED, state |-> st]
    ELSE [result |-> JC_RESULT_OK,
          state |-> [st EXCEPT !.nesting_level = @ + 1,
                               !.nesting_stack[st.nesting_level + 1] = type]]

\* jc_unnest that also refuses to pop the outermost frame.
jc_unnest_off_by_one(st) ==
    IF st.nesting_level <= JC_NO_NESTING_LEVEL + 1
    THEN [result |-> JC_RESULT_ERR_CORRUPTED_STATE, state |-> st]
    ELSE [result |-> JC_RESULT_OK,
          state |-> [st EXCEPT !.nesting_level = @ - 1]]

jc_unnest(st) ==
    IF st.nesting_level <= JC_NO_NESTING_LEVEL
    THEN [result |-> JC_RESULT_ERR_CORRUPTED_STATE, state |-> st]
    ELSE [result |-> JC_RESULT_OK,
          state |-> [st EXCEPT !.nesting_level = @ - 1]]

\* jc_get_end_token_type_of_current_nesting with the two end tokens swapped.
jc_get_end_token_type_swapped(st) ==
    IF JC_NO_NESTING_LEVEL < st.nesting_level
       /\ st.nesting_level < JC_MAX_NESTING_LEVEL
    THEN IF st.nesting_stack[st.nesting_level] = JC_NESTING_TYPE_OBJECT
         THEN JC_TOKEN_TYPE_COMMA \cup JC_TOKEN_TYPE_ARRAY_END
         ELSE JC_TOKEN_TYPE_COMMA \cup JC_TOKEN_TYPE_OBJECT_END
    ELSE JC_NO_TOKENS_EXPECTED

jc_get_end_token_type_of_current_nesting(st) ==
    IF JC_NO_NESTING_LEVEL < st.nesting_level
       /\ st.nesting_level < JC_MAX_NESTING_LEVEL
    THEN IF st.nesting_stack[st.nesting_level] = JC_NESTING_TYPE_OBJECT
         THEN JC_TOKEN_TYPE_COMMA \cup JC_TOKEN_TYPE_OBJECT_END
         ELSE JC_TOKEN_TYPE_COMMA \cup JC_TOKEN_TYPE_ARRAY_END
    ELSE JC_NO_TOKENS_EXPECTED

\* jc_get_token_type_after_comma_of_current_nesting that lets the container
\* end directly after a comma.
jc_get_token_type_after_comma_or_end(st) ==
    IF JC_NO_NESTING_LEVEL < st.nesting_level
       /\ st.nesting_level < JC_MAX_NESTING_LEVEL
    THEN IF st.nesting_stack[st.nesting_level] = JC_NESTING_TYPE_OBJECT
         THEN JC_TOKEN_TYPE_FIELD_NAME \cup JC_TOKEN_TYPE_OBJECT_END
         ELSE JC_TOKEN_TYPE_VALUE \cup JC_TOKEN_TYPE_ARRAY_END
    ELSE JC_NO_TOKENS_EXPECTED

jc_get_token_type_after_comma_of_current_nesting(st) ==
    IF JC_NO_NESTING_LEVEL < st.nesting_level
       /\ st.nesting_level < JC_MAX_NESTING_LEVEL
    THEN IF st.nesting_stack[st.nesting_level] = JC_NESTING_TYPE_OBJECT
         THEN JC_TOKEN_TYPE_FIELD_NAME
         ELSE JC_TOKEN_TYPE_VALUE
    ELSE JC_NO_TOKENS_EXPECTED

\* jc_search_dquote that takes a backslash for an ordinary character.
RECURSIVE jc_search_dquote_no_escape(_, _)
jc_search_dquote_no_escape(m, c) ==
    IF MemAt(m, c) = FAULT THEN BADPTR
    ELSE IF MemAt(m, c) = JC_CHAR_DQUOTE THEN c
    ELSE IF MemAt(m, c) = JC_CHAR_NULL THEN NULLPTR
    ELSE jc_search_dquote_no_escape(m, c + 1)

\* The offset of the closing quote, NULLPTR when the null comes first,
\* BADPTR when the search leaves the memory.
RECURSIVE jc_search_dquote(_, _)
jc_search_dquote(m, c) ==
    IF MemAt(m, c) = FAULT THEN BADPTR
    ELSE IF MemAt(m, c) = JC_CHAR_DQUOTE THEN c
    ELSE IF MemAt(m, c) = JC_CHAR_NULL THEN NULLPTR
    ELSE IF MemAt(m, c) = JC_CHAR_BACKSLASH /\ MemAt(m, c + 1) = FAULT
         THEN BADPTR
    ELSE IF MemAt(m, c) = JC_CHAR_BACKSLASH /\ MemAt(m, c + 1) # JC_CHAR_NULL
         THEN jc_search_dquote(m, c + 2)
    ELSE jc_search_dquote(m, c + 1)

\* jc_parse_string_or_field_name that never turns a string into a field name.
jc_parse_string_only(m, st, tok) ==
    LET end_dquote_ptr == jc_search_dquote(m, st.source_pos + 1)
        token_len == end_dquote_ptr - st.source_pos - 1
        s1 == jc_advance_source_pos(st, 1)
        s2 == jc_advance_source_pos(s1, token_len + 1)
    IN  IF end_dquote_ptr = BADPTR THEN Ret(SEGV, st, tok)
        ELSE IF end_dquote_ptr = NULLPTR
             THEN Ret(JC_RESULT_ERR_UNEXPECTED_EOF, st, tok)
        ELSE Ret(JC_RESULT_OK,
                 jc_expect_next(s2,
                    jc_get_end_token_type_of_current_nesting(s2)),
                 jc_make_token(s1, tok, JC_TOKEN_TYPE_STRING, token_len))

jc_parse_string_or_field_name(m, st, tok) ==
    LET end_dquote_ptr == jc_search_dquote(m, st.source_pos + 1)
        token_len == end_dquote_ptr - st.source_pos - 1
        token_type == IF jc_is_expected(st, JC_TOKEN_TYPE_FIELD_NAME)
                      THEN JC_TOKEN_TYPE_FIELD_NAME
                      ELSE JC_TOKEN_TYPE_STRING
        s1 == jc_advance_source_pos(st, 1)
        s2 == jc_advance_source_pos(s1, token_len + 1)
    IN  IF end_dquote_ptr = BADPTR THEN Ret(SEGV, st, tok)
        ELSE IF end_dquote_ptr = NULLPTR
             THEN Ret(JC_RESULT_ERR_UNEXPECTED_EOF, st, tok)
        ELSE Ret(JC_RESULT_OK,
                 IF token_type = JC_TOKEN_TYPE_FIELD_NAME
                 THEN jc_expect_next(s2, JC_TOKEN_TYPE_COLON)
                 ELSE jc_expect_next(s2,
                        jc_get_end_token_type_of_current_nesting(s2)),
                 jc_make_token(s1, tok, token_type, token_len))

\* The while loop of jc_parse_number: the final token_len, BADPTR on a fault.
RECURSIVE jc_number_len(_, _, _)
jc_number_len(m, st, token_len) ==
    IF MemAt(m, st.source_pos + token_len) = FAULT THEN BADPTR
    ELSE IF strchr(JC_VALID_CHARS_IN_NUMBER, MemAt(m, st.source_pos + token_len))
         THEN jc_number_len(m, st, token_len + 1)
    ELSE token_len

jc_parse_number(m, st, tok) ==
    LET token_len == jc_number_len(m, st, 0)
        s1 == jc_advance_source_pos(st, token_len)
    IN  IF token_len = BADPTR THEN Ret(SEGV, st, tok)
        ELSE Ret(JC_RESULT_OK,
                 jc_expect_next(s1, jc_get_end_token_type_of_current_nesting(s1)),
                 jc_make_token(st, tok, JC_TOKEN_TYPE_NUMBER, token_len))

\* jc_parse_literal that compares one character less than the literal has.
jc_parse_literal_short(m, st, tok, token_type, literal) ==
    LET token_len == strlen(literal)
        cmp == strncmp(m, st.source_pos, literal, token_len - 1)
        s1 == jc_advance_source_pos(st, token_len)
    IN  IF cmp = BADPTR THEN Ret(SEGV, st, tok)
        ELSE IF cmp # 0 THEN Ret(JC_RESULT_ERR_UNEXPECTED_TOKEN, st, tok)
        ELSE Ret(JC_RESULT_OK,
                 jc_expect_next(s1, jc_get_end_token_type_of_current_nesting(s1)),
                 jc_make_token(st, tok, token_type, token_len))

jc_parse_literal(m, st, tok, token_type, literal) ==
    LET token_len == strlen(literal)
        cmp == strncmp(m, st.source_pos, literal, token_len)
        s1 == jc_advance_source_pos(st, token_len)
    IN  IF cmp = BADPTR THEN Ret(SEGV, st, tok)
        ELSE IF cmp # 0 THEN Ret(JC_RESULT_ERR_UNEXPECTED_TOKEN, st, tok)
        ELSE Ret(JC_RESULT_OK,
                 jc_expect_next(s1, jc_get_end_token_type_of_current_nesting(s1)),
                 jc_make_token(st, tok, token_type, token_len))

\* The start productions: token, advance, expect, and only then jc_nest.
jc_parse_start(st, tok, token_type, expected, nesting_type) ==
    LET t == jc_make_token(st, tok, token_type, 1)
        s1 == jc_advance_source_pos(st, 1)
        s2 == jc_expect_next(s1, expected)
        n == jc_nest(s2, nesting_type)
    IN  Ret(n.result, n.state, t)

\* The end productions: token, advance, jc_unnest, expect.
jc_parse_end(st, tok, token_type) ==
    LET t == jc_make_token(st, tok, token_type, 1)
        s1 == jc_advance_source_pos(st, 1)
        u == jc_unnest(s1)
    IN  IF u.result # JC_RESULT_OK
        THEN Ret(JC_RESULT_ERR_CORRUPTED_STATE, u.state, t)
        ELSE Ret(JC_RESULT_OK,
                 jc_expect_next(u.state,
                    jc_get_end_token_type_of_current_nesting(u.state)),
                 t)

\* jc_parse_colon that advances only when a token slot was supplied.
jc_parse_colon_needs_slot(st, tok) ==
    Ret(JC_RESULT_OK,
        jc_expect_next(IF tok # NoSlot THEN jc_advance_source_pos(st, 1) ELSE st,
                       JC_TOKEN_TYPE_VALUE),
        jc_make_token(st, tok, JC_TOKEN_TYPE_COLON, 1))

jc_parse_colon(st, tok) ==
    Ret(JC_RESULT_OK,
        jc_expect_next(jc_advance_source_pos(st, 1), JC_TOKEN_TYPE_VALUE),
        jc_make_token(st, tok, JC_TOKEN_TYPE_COLON, 1))

jc_parse_comma(st, tok) ==
    LET s1 == jc_advance_source_pos(st, 1)
    IN  Ret(JC_RESULT_OK,
            jc_expect_next(s1,
                jc_get_token_type_after_comma_of_current_nesting(s1)),
            jc_make_token(st, tok, JC_TOKEN_TYPE_COMMA, 1))

\* jc_next_token on state st0 over memory m with token slot tok.
jc_next_token(m, st0, tok) ==
    LET st == jc_skip_whitespace(m, st0)
        current_char == MemAt(m, st.source_pos)
    IN  IF st0 = NullState THEN Ret(JC_RESULT_ERR_CORRUPTED_STATE, st0, tok)
        ELSE IF current_char = FAULT THEN Ret(SEGV, st, tok)
        ELSE IF jc_is_expected(st, JC_NO_TOKENS_EXPECTED)
        THEN Ret(IF current_char = JC_CHAR_NULL
                 THEN JC_RESULT_EOF ELSE JC_RESULT_ERR_GARBAGE, st, tok)
        ELSE IF current_char = JC_CHAR_NULL
        THEN Ret(JC_RESULT_ERR_UNEXPECTED_EOF, st, tok)
        ELSE IF jc_is_expected(st, JC_TOKEN_TYPE_OBJECT_START)
                /\ current_char = JC_CHAR_OBJECT_START
        THEN jc_parse_start(st, tok, JC_TOKEN_TYPE_OBJECT_START,
                JC_TOKEN_TYPE_FIELD_NAME \cup JC_TOKEN_TYPE_OBJECT_END,
                JC_NESTING_TYPE_OBJECT)
        ELSE IF jc_is_expected(st, JC_TOKEN_TYPE_ARRAY_START)
                /\ current_char = JC_CHAR_ARRAY_START
        THEN jc_parse_start(st, tok, JC_TOKEN_TYPE_ARRAY_START,
                JC_TOKEN_TYPE_VALUE \cup JC_TOKEN_TYPE_ARRAY_END,
                JC_NESTING_TYPE_ARRAY)
        ELSE IF jc_is_expected(st, JC_TOKEN_TYPE_OBJECT_END)
                /\ current_char = JC_CHAR_OBJECT_END
        THEN jc_parse_end(st, tok, JC_TOKEN_TYPE_OBJECT_END)
        ELSE IF jc_is_expected(st, JC_TOKEN_TYPE_ARRAY_END)
                /\ current_char = JC_CHAR_ARRAY_END
        THEN jc_parse_end(st, tok, JC_TOKEN_TYPE_ARRAY_END)
        ELSE IF jc_is_expected(st, JC_TOKEN_TYPE_COLON)
                /\ current_char = JC_CHAR_COLON
        THEN jc_parse_colon(st, tok)
        ELSE IF jc_is_expected(st, JC_TOKEN_TYPE_COMMA)
                /\ current_char = JC_CHAR_COMMA
        THEN jc_parse_comma(st, tok)
        ELSE IF jc_is_expected(st,
                    JC_TOKEN_TYPE_FIELD_NAME \cup JC_TOKEN_TYPE_STRING)
                /\ current_char = JC_CHAR_DQUOTE
        THEN jc_parse_string_or_field_name(m, st, tok)
        ELSE IF jc_is_expected(st, JC_TOKEN_TYPE_NUMBER)
                /\ strchr(JC_VALID_CHARS_IN_NUMBER, current_char)
        THEN jc_parse_number(m, st, tok)
        ELSE IF jc_is_expected(st, JC_TOKEN_TYPE_TRUE)
                /\ strchr(JC_LIT_TRUE, current_char)
        THEN jc_parse_literal(m, st, tok, JC_TOKEN_TYPE_TRUE, JC_LIT_TRUE)
        ELSE IF jc_is_expected(st, JC_TOKEN_TYPE_FALSE)
                /\ strchr(JC_LIT_FALSE, current_char)
        THEN jc_parse_literal(m, st, tok, JC_TOKEN_TYPE_FALSE, JC_LIT_FALSE)
        ELSE IF jc_is_expected(st, JC_TOKEN_TYPE_NULL)
                /\ strchr(JC_LIT_NULL, current_char)
        THEN jc_parse_literal(m, st, tok, JC_TOKEN_TYPE_NULL, JC_LIT_NULL)
        ELSE Ret(JC_RESULT_ERR_UNEXPECTED_TOKEN, st, tok)

\* --------------------------------------------------------------- sources
Alphabet == {"{", "}", "[", "]", ":", ",", "\"", "1", " "}

\* Every source of at most MaxLen characters of Alphabet.
ShortSources == UNION {[1..k -> Alphabet] : k \in 0..MaxLen}

\* What the caller's buffer may hold after the terminating null.
TailAlphabet == {JC_CHAR_NULL, "1", " ", "x"}
Tails == UNION {[1..k -> TailAlphabet] : k \in 0..MaxTail}

\* Complete JSON documents whose top-level value is not a number.
ValidDocs ==
    {<<"t", "r", "u", "e">>,
     <<"f", "a", "l", "s", "e">>,
     <<"n", "u", "l", "l">>,
     <<"\"", "a", "b", "c", "\"">>,
     <<"{", "\"", "a", "\"", ":", "1", ",", "\"", "b", "\"", ":", "2", "}">>,
     <<"[", "1", ",", "t", "r", "u", "e", "]">>,
     <<"{", "\"", "a", "\"", ":", "n", "u", "l", "l", "}">>,
     <<"[", "\"", "a", "\\", "\"", "\"", ",", "f", "a", "l", "s", "e", "]">>}

\* Those documents cut off before their last character.
TruncatedDocs == UNION {{SubSeq(d, 1, k) : k \in 0..(Len(d) - 1)} : d \in ValidDocs}

ExampleSources ==
    {<<"4", "2">>,
     <<"1", " ", "2">>,
     <<"[", "1", ",", "]">>,
     <<"[", "}">>,
     <<"{", "]">>,
     <<" ", "\t", "\n">>,
     <<"+", "+", "-", "0", "E", "E">>,
     <<"{", "\"", "a", "\"", ":", "1">>,
     <<"[", "4", "2", " ", "]", " ">>}

\* Container openers, one per level: `[` or `{"":`.
\* Quoted strings: an opening quote and up to MaxStr characters of quotes,
\* backslashes and letters, at top level, after whitespace, in an array
\* and in an object.
StringAlphabet == {JC_CHAR_DQUOTE, JC_CHAR_BACKSLASH, "a"}

StringBodies ==
    UNION {[1..n -> StringAlphabet] : n \in 0..MaxStr}

StringSources ==
    {prefix \o <<JC_CHAR_DQUOTE>> \o body :
        prefix \in {<<>>, <<" ">>, <<"[">>, <<"{">>},
        body \in StringBodies}

\* Words of up to MaxWord letters of `true` and `null`, and the words
\* around `false` and the literals in other cases and contexts.
LiteralAlphabet == {"t", "r", "u", "e", "n", "l"}

LiteralWords == UNION {[1..n -> LiteralAlphabet] : n \in 0..MaxWord}

Literals == {JC_LIT_TRUE, JC_LIT_FALSE, JC_LIT_NULL}

LiteralSources ==
    LiteralWords
    \cup UNION {{SubSeq(lit, i, Len(lit)) : i \in 1..Len(lit)} : lit \in Literals}
    \cup {lit \o <<c>> : lit \in Literals, c \in {"x", "e", ",", " "}}
    \cup {<<"[">> \o lit \o <<",">> \o word \o <<"]">> :
              lit \in Literals,
              word \in Literals \cup {<<"e">>, <<"T", "r", "u", "e">>}}
    \cup {<<"T", "r", "u", "e">>, <<"F", "a", "l", "s", "e">>,
          <<"N", "u", "l", "l">>, <<"f", "a", "l", "s", "x">>,
          <<"f", "a", "l", "s">>, <<"a", "l", "s", "e">>,
          <<"{", "t", "r", "u", "e">>, <<"[", "r", "u", "e">>}

Opener(kind) ==
    IF kind = JC_NESTING_TYPE_OBJECT
    THEN <<"{", "\"", "\"", ":">>
    ELSE <<"[">>

Closer(kind) == IF kind = JC_NESTING_TYPE_OBJECT THEN <<"}">> ELSE <<"]">>

RECURSIVE Openers(_)
Openers(kinds) ==
    IF kinds = <<>> THEN <<>>
    ELSE Opener(Head(kinds)) \o Openers(Tail(kinds))

RECURSIVE Closers(_)
Closers(kinds) ==
    IF kinds = <<>> THEN <<>>
    ELSE Closers(Tail(kinds)) \o Closer(Head(kinds))

\* Any mix of objects and arrays nested to the maximum depth and one beyond,
\* left open, filled with a number, or filled and closed again.
DeepKinds ==
    UNION {[1..n -> {JC_NESTING_TYPE_OBJECT, JC_NESTING_TYPE_ARRAY}] :
            n \in {JC_MAX_NESTING_LEVEL, JC_MAX_NESTING_LEVEL + 1}}

DeepSources ==
    UNION {{Openers(k),
            Openers(k) \o <<"1">>,
            Openers(k) \o <<"1">> \o Closers(k)} : k \in DeepKinds}

Sources == ShortSources \cup ValidDocs \cup TruncatedDocs \cup ExampleSources
           \cup DeepSources \cup StringSources \cup LiteralSources

\* ------------------------------------------------------------ transitions
Init ==
    /\ source \in Sources
    /\ tail = <<>>
    /\ observed = FALSE
    /\ source_pos = jc_init(UninitState, source).state.source_pos
    /\ nesting_stack = jc_init(UninitState, source).state.nesting_stack
    /\ nesting_level = jc_init(UninitState, source).state.nesting_level
    /\ expected_token_types =
            jc_init(UninitState, source).state.expected_token_types
    /\ token = EmptySlot
    /\ result = JC_RESULT_OK
    /\ history = <<>>
    /\ scan_end = RUNNING

\* The call about to be made reads past the terminating null: with nothing
\* mapped after the null it faults.
ReadsPastNull ==
    jc_next_token(Mem(source, <<>>), jc_state, token).result = SEGV

\* One call  result = jc_next_token(&jc, &token)  and the driver's handling
\* of the result.  The bytes after the terminating null are fixed by the
\* first call that reads them.
JcNextToken ==
    /\ result # SEGV
    /\ \E tl \in (IF observed THEN {tail}
                  ELSE IF ReadsPastNull THEN Tails ELSE {<<>>}) :
        LET r == jc_next_token(Mem(source, tl), jc_state, token)
            past == r.result = SEGV \/ r.state.source_pos > Len(source)
        IN  /\ source_pos' = r.state.source_pos
            /\ nesting_stack' = r.state.nesting_stack
            /\ nesting_level' = r.state.nesting_level
            /\ expected_token_types' = r.state.expected_token_types
            /\ token' = r.token
            /\ result' = r.result
            /\ observed' = (observed \/ past)
            /\ tail' = IF observed \/ past THEN tl ELSE tail
            /\ history' = IF scan_end = RUNNING /\ r.result = JC_RESULT_OK
                             /\ token # NoSlot
                          THEN Append(history, r.token)
                          ELSE history
            /\ scan_end' = IF scan_end = RUNNING /\ r.result # JC_RESULT_OK
                           THEN r.result
                           ELSE scan_end
    /\ UNCHANGED source

Next == JcNextToken

Spec == Init /\ [][Next]_vars

\* A driver that passes a token slot in every call of the scan, or a null
\* token pointer in every call of the scan.
InitSlot ==
    /\ source \in Sources
    /\ tail = <<>>
    /\ observed = FALSE
    /\ source_pos = jc_init(UninitState, source).state.source_pos
    /\ nesting_stack = jc_init(UninitState, source).state.nesting_stack
    /\ nesting_level = jc_init(UninitState, source).state.nesting_level
    /\ expected_token_types =
            jc_init(UninitState, source).state.expected_token_types
    /\ token \in {EmptySlot, NoSlot}
    /\ result = JC_RESULT_OK
    /\ history = <<>>
    /\ scan_end = RUNNING

SpecSlot == InitSlot /\ [][Next]_vars

\* The sources of the specifications that call jc_init again or start from
\* a corrupted state.
NamedSources == ValidDocs \cup TruncatedDocs \cup ExampleSources

InitNamed ==
    /\ Init
    /\ source \in NamedSources

\* One call  jc_init(state, source)  on the engine in use: with the state
\* or a null state pointer, with the source or a null source pointer.  A
\* successful call starts a new driver loop.
JcInit ==
    /\ result # SEGV
    /\ \E state_is_null \in BOOLEAN, src \in {source, NullSource} :
        LET r == jc_init(IF state_is_null THEN NullState ELSE jc_state, src)
            done == r.result = JC_RESULT_OK /\ ~state_is_null
        IN  /\ result' = IF r.result = JC_RESULT_OK /\ state_is_null
                         THEN SEGV ELSE r.result
            /\ source' = IF done THEN r.source ELSE source
            /\ source_pos' = IF done THEN r.state.source_pos ELSE source_pos
            /\ nesting_stack' =
                    IF done THEN r.state.nesting_stack ELSE nesting_stack
            /\ nesting_level' =
                    IF done THEN r.state.nesting_level ELSE nesting_level
            /\ expected_token_types' =
                    IF done THEN r.state.expected_token_types
                    ELSE expected_token_types
            /\ history' = IF done THEN <<>> ELSE history
            /\ scan_end' = IF done THEN RUNNING ELSE scan_end
    /\ UNCHANGED <<tail, observed, token>>

NextInit == JcNextToken \/ JcInit

SpecInit == InitNamed /\ [][NextInit]_vars

\* A state whose depth index was overwritten with a value above the
\* capacity after jc_init; the stack slots hold frames.
CorruptLevels == {JC_MAX_NESTING_LEVEL, JC_MAX_NESTING_LEVEL + 1}

InitCorrupt ==
    /\ source \in NamedSources
    /\ tail = <<>>
    /\ observed = FALSE
    /\ source_pos = jc_init(UninitState, source).state.source_pos
    /\ nesting_stack \in
           {[i \in 0..(JC_MAX_NESTING_LEVEL - 1) |-> type] :
                type \in {JC_NESTING_TYPE_OBJECT, JC_NESTING_TYPE_ARRAY}}
    /\ nesting_level \in CorruptLevels
    /\ expected_token_types =
           jc_init(UninitState, source).state.expected_token_types
    /\ token = EmptySlot
    /\ result = JC_RESULT_OK
    /\ history = <<>>
    /\ scan_end = RUNNING

\* One call  jc_next_token(NULL, &token).
JcNextTokenNull ==
    /\ result # SEGV
    /\ LET r == jc_next_token(Mem(source, tail), NullState, token)
       IN  /\ result' = r.result
           /\ token' = r.token
           /\ scan_end' = IF scan_end = RUNNING /\ r.result # JC_RESULT_OK
                          THEN r.result ELSE scan_end
    /\ UNCHANGED <<source, tail, observed, source_pos, nesting_stack,
                   nesting_level, expected_token_types, history>>

NextCorrupt == JcNextToken \/ JcNextTokenNull

SpecCorrupt == InitCorrupt /\ [][NextCorrupt]_vars

\* The driver loop keeps calling jc_next_token.
SpecFair == Spec /\ WF_vars(JcNextToken)

\* ------------------------------------------------- vocabulary of the claims
ErrorCodes ==
    {JC_RESULT_ERR_UNEXPECTED_TOKEN, JC_RESULT_ERR_UNEXPECTED_EOF,
     JC_RESULT_ERR_GARBAGE, JC_RESULT_ERR_MAX_NESTING_REACHED,
     JC_RESULT_ERR_CORRUPTED_STATE}

StartTypes == {JC_TOKEN_TYPE_OBJECT_START, JC_TOKEN_TYPE_ARRAY_START}
EndTypes == {JC_TOKEN_TYPE_OBJECT_END, JC_TOKEN_TYPE_ARRAY_END}
ValueTypes == {{t} : t \in JC_TOKEN_TYPE_VALUE}

\* The offset of the first non-whitespace character at or after source_pos,
\* and that character.
SkipPos == jc_skip_whitespace(Mem(source, tail), jc_state).source_pos
NextChar == MemAt(Mem(source, tail), SkipPos)

\* The scan position lies within the source (terminating null included).
InSource == source_pos <= Len(source)

\* A character of the number charset (the terminating null is not one).
InNumberCharset(c) ==
    \E i \in 1..Len(JC_VALID_CHARS_IN_NUMBER) : JC_VALID_CHARS_IN_NUMBER[i] = c

\* The offset of the first character at or after p that is not in the
\* number charset.
RECURSIVE RunEnd(_)
RunEnd(p) ==
    IF p < Len(source) /\ InNumberCharset(source[p + 1]) THEN RunEnd(p + 1) ELSE p

\* The start tokens among the first n tokens of h that are still unclosed,
\* innermost last; Mismatch once an end token closed nothing or a start
\* token of the other kind.
Mismatch == <<{"MISMATCH"}>>

RECURSIVE Unclosed(_, _)
Unclosed(h, n) ==
    IF n = 0 THEN <<>>
    ELSE LET prev == Unclosed(h, n - 1)
             t == h[n].type
             opener == IF t = JC_TOKEN_TYPE_OBJECT_END
                       THEN JC_TOKEN_TYPE_OBJECT_START
                       ELSE JC_TOKEN_TYPE_ARRAY_START
         IN  IF prev = Mismatch THEN Mismatch
             ELSE IF t \in StartTypes THEN Append(prev, t)
             ELSE IF t \in EndTypes
                  THEN IF prev # <<>> /\ prev[Len(prev)] = opener
                       THEN SubSeq(prev, 1, Len(prev) - 1)
                       ELSE Mismatch
             ELSE prev

Open == Unclosed(history, Len(history))
Depth == Len(Open)

Tok(type, start, end) == [type |-> type, start |-> start, end |-> end]

\* ------------------------------------------------------------------- C1
\* C1: every token returned with Ok satisfies start <= end <= length(source).
C1_TokenWithinSource ==
    result = JC_RESULT_OK =>
        token.start <= token.end /\ token.end <= Len(source)

\* ------------------------------------------------------------------- C2
\* C2: when a number is expected and the current character is in the number
\* charset, next returns one NUMBER token spanning the maximal run of charset
\* characters, the run stopping at the terminating null at the latest; `42`
\* yields {NUMBER, 0, 2} and then EndOfInput.
C2_NumberIsMaximalRun ==
    /\ [][(InSource /\ JC_TOKEN_TYPE_NUMBER \subseteq expected_token_types
            /\ InNumberCharset(NextChar))
          => (/\ result' = JC_RESULT_OK
              /\ token' = Tok(JC_TOKEN_TYPE_NUMBER, SkipPos, RunEnd(SkipPos))
              /\ source_pos' = RunEnd(SkipPos))]_vars
    /\ []((source = <<"4", "2">> /\ scan_end # RUNNING)
          => (scan_end = JC_RESULT_EOF
              /\ history = <<Tok(JC_TOKEN_TYPE_NUMBER, 0, 2)>>))

\* ------------------------------------------------------------------- C3
\* C3: EndOfInput is returned only in the terminal state (nothing expected,
\* no open frame, one complete top-level value consumed without an error,
\* position at the terminating null); reaching the terminating null with a
\* non-empty expected set gives UnexpectedEndOfInput.
C3_EofOnlyWhenComplete ==
    /\ [](result = JC_RESULT_EOF
          => (/\ expected_token_types = JC_NO_TOKENS_EXPECTED
              /\ nesting_level = JC_NO_NESTING_LEVEL
              /\ scan_end = JC_RESULT_EOF
              /\ history # <<>> /\ Open = <<>>
              /\ source_pos = Len(source)))
    /\ [][(InSource /\ NextChar = JC_CHAR_NULL
            /\ expected_token_types # JC_NO_TOKENS_EXPECTED)
          => result' = JC_RESULT_ERR_UNEXPECTED_EOF]_vars

\* ------------------------------------------------------------------- C4
\* C4: in a scan, every end token returned with Ok closes the most recently
\* opened unclosed start token, and that token is of the same kind; `[}` and
\* `{]` end with UnexpectedToken after the start token.
C4_EndsMatchStarts ==
    /\ Open # Mismatch
    /\ (source \in {<<"[", "}">>, <<"{", "]">>} /\ scan_end # RUNNING)
       => (scan_end = JC_RESULT_ERR_UNEXPECTED_TOKEN /\ Len(history) = 1)

\* A scan that closed a nest of both kinds, MaxNesting deep, completely.
C4_Witness ==
    /\ scan_end = JC_RESULT_EOF
    /\ \E i \in 1..Len(history) : history[i].type = JC_TOKEN_TYPE_OBJECT_END
    /\ \E i \in 1..Len(history) : history[i].type = JC_TOKEN_TYPE_ARRAY_END
    /\ \E i \in 1..Len(history) : Len(Unclosed(history, i)) = JC_MAX_NESTING_LEVEL

\* ------------------------------------------------------------------- C5
StringTypes == {JC_TOKEN_TYPE_STRING, JC_TOKEN_TYPE_FIELD_NAME}

\* The innermost container open after the first n tokens is an object.
InObject(h, n) ==
    /\ Unclosed(h, n) # <<>>
    /\ Unclosed(h, n)[Len(Unclosed(h, n))] = JC_TOKEN_TYPE_OBJECT_START

\* Token i completes a value.
EndsValue(h, i) ==
    h[i].type \in (ValueTypes \ StartTypes) \cup EndTypes

ObjectExample ==
    <<"{", "\"", "a", "\"", ":", "1", ",", "\"", "b", "\"", ":", "2", "}">>

\* C5: in a scan a quoted string is a FIELD_NAME iff it directly follows an
\* OBJECT_START or a COMMA inside an object, and a STRING otherwise; a
\* FIELD_NAME is followed by COLON, a COLON by a value, a value inside an
\* object by COMMA or OBJECT_END; `{"a":1,"b":2}` yields the nine tokens of
\* the example and then EndOfInput.
C5_FieldNames ==
    /\ \A i \in 1..Len(history) :
        /\ history[i].type \in StringTypes =>
            /\ MemAt(source, history[i].start - 1) = JC_CHAR_DQUOTE
            /\ MemAt(source, history[i].end) = JC_CHAR_DQUOTE
            /\ (history[i].type = JC_TOKEN_TYPE_FIELD_NAME
                <=> (i > 1 /\ (\/ history[i - 1].type = JC_TOKEN_TYPE_OBJECT_START
                               \/ (history[i - 1].type = JC_TOKEN_TYPE_COMMA
                                   /\ InObject(history, i - 1)))))
        /\ i < Len(history) =>
            /\ history[i].type = JC_TOKEN_TYPE_FIELD_NAME
                => history[i + 1].type = JC_TOKEN_TYPE_COLON
            /\ history[i].type = JC_TOKEN_TYPE_COLON
                => history[i + 1].type \in ValueTypes
            /\ (EndsValue(history, i) /\ InObject(history, i))
                => history[i + 1].type \in
                        {JC_TOKEN_TYPE_COMMA, JC_TOKEN_TYPE_OBJECT_END}
        /\ history[i].type = JC_TOKEN_TYPE_COLON
            => (i > 1 /\ history[i - 1].type = JC_TOKEN_TYPE_FIELD_NAME)
    /\ (source = ObjectExample /\ scan_end # RUNNING)
       => /\ scan_end = JC_RESULT_EOF
          /\ history = <<Tok(JC_TOKEN_TYPE_OBJECT_START, 0, 1),
                         Tok(JC_TOKEN_TYPE_FIELD_NAME, 2, 3),
                         Tok(JC_TOKEN_TYPE_COLON, 4, 5),
                         Tok(JC_TOKEN_TYPE_NUMBER, 5, 6),
                         Tok(JC_TOKEN_TYPE_COMMA, 6, 7),
                         Tok(JC_TOKEN_TYPE_FIELD_NAME, 8, 9),
                         Tok(JC_TOKEN_TYPE_COLON, 10, 11),
                         Tok(JC_TOKEN_TYPE_NUMBER, 11, 12),
                         Tok(JC_TOKEN_TYPE_OBJECT_END, 12, 13)>>

\* The scan of the example has ended.
C5_Witness ==
    /\ source = ObjectExample
    /\ scan_end # RUNNING
    /\ \E i \in 1..Len(history) : history[i].type = JC_TOKEN_TYPE_FIELD_NAME

\* ------------------------------------------------------------------- C6
\* A start token is about to be taken.
StartAhead ==
    \/ NextChar = JC_CHAR_OBJECT_START
       /\ JC_TOKEN_TYPE_OBJECT_START \subseteq expected_token_types
    \/ NextChar = JC_CHAR_ARRAY_START
       /\ JC_TOKEN_TYPE_ARRAY_START \subseteq expected_token_types

\* C6: in a scan, a start token opening level 1 .. JC_MAX_NESTING_LEVEL is
\* returned with Ok, whatever the mix of objects and arrays around it; a
\* start token that would open one level more returns MaxNestingReached.
C6_MaxNesting ==
    [][(scan_end = RUNNING /\ StartAhead)
       => result' = IF Depth < JC_MAX_NESTING_LEVEL
                    THEN JC_RESULT_OK
                    ELSE JC_RESULT_ERR_MAX_NESTING_REACHED]_vars

\* A scan of a mixed nest that opened JC_MAX_NESTING_LEVEL levels and was
\* refused the next one.
C6_Witness ==
    /\ scan_end = JC_RESULT_ERR_MAX_NESTING_REACHED
    /\ Depth = JC_MAX_NESTING_LEVEL
    /\ \E i \in 1..Len(history) : history[i].type = JC_TOKEN_TYPE_OBJECT_START
    /\ \E i \in 1..Len(history) : history[i].type = JC_TOKEN_TYPE_ARRAY_START

\* ------------------------------------------------------------------- C7
\* C7: a call that returns MaxNestingReached leaves the token slot, the
\* expected set and the nesting stack as they were and the scan position at
\* the offending character.
C7_MaxNestingConsumesNothing ==
    [][result' = JC_RESULT_ERR_MAX_NESTING_REACHED
       => (/\ token' = token
           /\ source_pos' = SkipPos
           /\ expected_token_types' = expected_token_types
           /\ nesting_stack' = nesting_stack
           /\ nesting_level' = nesting_level)]_vars

\* ------------------------------------------------------------------- C8
\* C8: after a call returned an error code, no later call returns Ok or
\* EndOfInput.
C8_ErrorsAreTerminal ==
    [][(result \in ErrorCodes)
       => (result' \notin {JC_RESULT_OK, JC_RESULT_EOF})]_vars

\* ------------------------------------------------------------------- C9
\* C9: the scan of a truncated document ends with UnexpectedEndOfInput.
C9_TruncationIsUnexpectedEof ==
    (source \in TruncatedDocs /\ scan_end # RUNNING)
        => scan_end = JC_RESULT_ERR_UNEXPECTED_EOF

OtherSlot == IF token = NoSlot THEN EmptySlot ELSE NoSlot

\* C11: a call of next with a null token slot returns the same result code
\* and leaves the same scan position, expected set, nesting stack and depth
\* as the call with a token slot, from every state of a scan made with and
\* of a scan made without token slots.
C11_SlotChangesNothing ==
    [][LET other == jc_next_token(Mem(source, tail'), jc_state, OtherSlot)
       IN  /\ other.result = result'
           /\ other.state.source_pos = source_pos'
           /\ other.state.expected_token_types = expected_token_types'
           /\ other.state.nesting_stack = nesting_stack'
           /\ other.state.nesting_level = nesting_level'
           /\ token = NoSlot => token' = NoSlot]_vars

\* A scan of the object example made without token slots reached EndOfInput.
C11_Witness ==
    /\ token = NoSlot
    /\ source = ObjectExample
    /\ scan_end = JC_RESULT_EOF
    /\ nesting_level = JC_NO_NESTING_LEVEL

\* ------------------------------------------------------------------ C12
NestingTypes == {JC_NESTING_TYPE_OBJECT, JC_NESTING_TYPE_ARRAY}

\* C12: in every state reached from init by next calls, calls after an error
\* included, the depth index lies in -1 .. JC_MAX_NESTING_LEVEL - 1, the
\* nesting stack keeps its JC_MAX_NESTING_LEVEL slots, and every slot up to
\* the depth index holds a frame that was written.
C12_DepthWithinCapacity ==
    /\ nesting_level \in JC_NO_NESTING_LEVEL..(JC_MAX_NESTING_LEVEL - 1)
    /\ DOMAIN nesting_stack = 0..(JC_MAX_NESTING_LEVEL - 1)
    /\ \A i \in 0..nesting_level : nesting_stack[i] \in NestingTypes

\* A call made after MaxNestingReached returned Ok with the stack full.
C12_Witness ==
    /\ scan_end = JC_RESULT_ERR_MAX_NESTING_REACHED
    /\ result = JC_RESULT_OK
    /\ nesting_level = JC_MAX_NESTING_LEVEL - 1

\* ------------------------------------------------------------------ C13
\* C13: the tokens of a scan are ordered and do not overlap
\* (start_i <= end_i <= start_{i+1}); every call that returns Ok leaves the
\* scan position strictly greater than before, returns a token that lies
\* between the old and the new position, and adds exactly one token to the
\* scan.
C13_TokensOrdered ==
    /\ [](\A i \in 1..Len(history) :
            /\ history[i].start <= history[i].end
            /\ i < Len(history) => history[i].end <= history[i + 1].start)
    /\ [][result' = JC_RESULT_OK
          => (/\ source_pos' > source_pos
              /\ source_pos <= token'.start
              /\ token'.start <= token'.end
              /\ token'.end <= source_pos'
              /\ scan_end = RUNNING
                 => history' = Append(history, token'))]_vars

\* A scan that returned at least nine tokens, the last one just now.
C13_Witness ==
    /\ Len(history) >= 9
    /\ result = JC_RESULT_OK
    /\ scan_end = RUNNING
    /\ token = history[Len(history)]

\* ------------------------------------------------------------------ C14
AnyValue ==
    {"NUMBER", "STRING", "TRUE", "FALSE", "NULL", "ARRAY_START", "OBJECT_START"}

\* C14: init returns CannotInitialize and changes nothing when the state or
\* the source is null; otherwise it returns Ok and sets position 0, depth
\* -1 and the expected set to the seven value kinds, whatever the state
\* held before; an engine initialised again scans like a new one.
C14_Init ==
    /\ [](\A st \in {jc_state, NullState}, src \in {source, NullSource} :
            IF st = NullState \/ src = NullSource
            THEN /\ jc_init(st, src).result = JC_RESULT_ERR_CANT_INIT
                 /\ jc_init(st, src).state = st
            ELSE /\ jc_init(st, src).result = JC_RESULT_OK
                 /\ jc_init(st, src).source = src
                 /\ jc_init(st, src).state.source_pos = 0
                 /\ jc_init(st, src).state.nesting_level = 0 - 1
                 /\ jc_init(st, src).state.expected_token_types = AnyValue)
    /\ [][result' = JC_RESULT_ERR_CANT_INIT
          => UNCHANGED <<source, source_pos, nesting_stack, nesting_level,
                         expected_token_types, token, history, scan_end>>]_vars
    /\ [][(result' = JC_RESULT_OK /\ source_pos' = 0)
          => (/\ nesting_level' = 0 - 1
              /\ expected_token_types' = AnyValue
              /\ source' = source)]_vars
    /\ []((source = ObjectExample /\ scan_end = JC_RESULT_EOF)
          => (Len(history) = 9 /\ Open = <<>>))

\* An engine that was used (a frame was written, a token returned) has
\* just been initialised again.
C14_Witness ==
    /\ result = JC_RESULT_OK
    /\ source_pos = 0
    /\ nesting_level = JC_NO_NESTING_LEVEL
    /\ nesting_stack[0] \in NestingTypes
    /\ token # EmptySlot
    /\ history = <<>>

\* ------------------------------------------------------------------ C15
TrailingCommaExample == <<"[", "1", ",", "]">>

\* C15: in a scan the token after a COMMA is a field name when the comma
\* stands in an object and a value when it stands in an array; a call that
\* finds an end character directly after a COMMA token returns
\* UnexpectedToken; the scan of `[1,]` ends with UnexpectedToken after
\* ARRAY_START(0,1), NUMBER(1,2) and COMMA(2,3).
C15_NoTrailingComma ==
    /\ [](\A i \in 1..(Len(history) - 1) :
            history[i].type = JC_TOKEN_TYPE_COMMA
            => IF InObject(history, i)
               THEN history[i + 1].type = JC_TOKEN_TYPE_FIELD_NAME
               ELSE history[i + 1].type \in ValueTypes)
    /\ [][(/\ scan_end = RUNNING
           /\ result = JC_RESULT_OK
           /\ token.type = JC_TOKEN_TYPE_COMMA
           /\ NextChar \in {JC_CHAR_ARRAY_END, JC_CHAR_OBJECT_END})
          => (/\ result' = JC_RESULT_ERR_UNEXPECTED_TOKEN
              /\ history' = history)]_vars
    /\ []((source = TrailingCommaExample /\ scan_end # RUNNING)
          => (/\ scan_end = JC_RESULT_ERR_UNEXPECTED_TOKEN
              /\ history = <<Tok(JC_TOKEN_TYPE_ARRAY_START, 0, 1),
                             Tok(JC_TOKEN_TYPE_NUMBER, 1, 2),
                             Tok(JC_TOKEN_TYPE_COMMA, 2, 3)>>))

\* The call on the `]` of `[1,]` has returned UnexpectedToken.
C15_Witness ==
    /\ source = TrailingCommaExample
    /\ result = JC_RESULT_ERR_UNEXPECTED_TOKEN
    /\ scan_end = JC_RESULT_ERR_UNEXPECTED_TOKEN
    /\ Len(history) = 3
    /\ history[3].type = JC_TOKEN_TYPE_COMMA
    /\ source_pos = 3

\* ------------------------------------------------------------------ C16
LegalLevels == JC_NO_NESTING_LEVEL..(JC_MAX_NESTING_LEVEL - 1)

\* C16: a call made with a null state, or on a state whose depth index lies
\* outside -1 .. JC_MAX_NESTING_LEVEL - 1, returns CorruptedState and
\* leaves position and token slot alone.
C16_CorruptedStateRejected ==
    [][(nesting_level \notin LegalLevels)
       => (/\ result' = JC_RESULT_ERR_CORRUPTED_STATE
           /\ source_pos' = source_pos
           /\ token' = token)]_vars

\* ------------------------------------------------------------------ C17
CharAt(i) == MemAt(Mem(source, tail), i)

\* The number of backslashes that stand directly before offset i, counted
\* back no further than offset p.
RECURSIVE BackslashRun(_, _)
BackslashRun(p, i) ==
    IF i > p /\ CharAt(i - 1) = JC_CHAR_BACKSLASH
    THEN 1 + BackslashRun(p, i - 1)
    ELSE 0

\* The quotes of the source at or after offset p that are not the second
\* character of a backslash pair, pairs being formed from p on.
ClosingQuotes(p) ==
    {i \in p..(Len(source) - 1) :
        CharAt(i) = JC_CHAR_DQUOTE /\ BackslashRun(p, i) % 2 = 0}

Least(S) == CHOOSE i \in S : \A j \in S : i <= j

\* The next call finds an opening quote where a string or a field name is
\* expected.
StringAhead ==
    /\ result # SEGV
    /\ NextChar = JC_CHAR_DQUOTE
    /\ jc_is_expected(jc_state,
                      JC_TOKEN_TYPE_STRING \cup JC_TOKEN_TYPE_FIELD_NAME)

\* The step of a call on an opening quote: the token lies between the
\* opening quote and the first closing quote and the position ends past the
\* closing quote; without a closing quote the call returns
\* UnexpectedEndOfInput, keeps stack, depth, expected set and token slot,
\* and leaves the position at eof_pos.
StringStep(eof_pos) ==
    StringAhead =>
        IF ClosingQuotes(SkipPos + 1) = {}
        THEN /\ result' = JC_RESULT_ERR_UNEXPECTED_EOF
             /\ source_pos' = eof_pos
             /\ UNCHANGED <<nesting_stack, nesting_level,
                            expected_token_types, token>>
        ELSE /\ result' = JC_RESULT_OK
             /\ token'.type \in StringTypes
             /\ token'.start = SkipPos + 1
             /\ token'.end = Least(ClosingQuotes(SkipPos + 1))
             /\ source_pos' = token'.end + 1

\* C17 (as stated): ... and on UnexpectedEndOfInput the engine state,
\* position included, is what it was before the call.
C17_StringUnchangedOnEof == [][StringStep(source_pos)]_vars

\* C17 (amended): a string or field-name token spans from after the opening
\* quote to the first quote that is not the second character of a backslash
\* pair, and the position ends past that quote; when the null comes first
\* the call returns UnexpectedEndOfInput and the engine state is unchanged
\* except that the position has moved past the whitespace before the
\* opening quote.
C17_StringSpan == [][StringStep(SkipPos)]_vars

\* ` "..\"..` : whitespace was skipped, the escaped quote did not close
\* the string and the null was reached.
C17_Witness ==
    /\ result = JC_RESULT_ERR_UNEXPECTED_EOF
    /\ history = <<>>
    /\ source_pos = 1
    /\ Len(source) >= 4
    /\ source[1] = " "
    /\ source[2] = JC_CHAR_DQUOTE
    /\ \E i \in 3..(Len(source) - 1) :
          source[i] = JC_CHAR_BACKSLASH /\ source[i + 1] = JC_CHAR_DQUOTE

\* ------------------------------------------------------------------ C18
\* The source at the first non-whitespace offset begins with the text lit.
LiteralAt(lit) == \A i \in 1..Len(lit) : CharAt(SkipPos + i - 1) = lit[i]

\* The letters of the three literals and their upper-case initials; those
\* of them that are characters of the number charset.
LiteralLetters ==
    {"t", "r", "u", "e", "f", "a", "l", "s", "n", "T", "F", "N"}
NumberLetters == {c \in LiteralLetters : InNumberCharset(c)}

\* A call returns a token of the type iff the type is expected and the
\* source begins with the literal; the token then spans the literal.
LiteralToken(type, lit) ==
    /\ (result' = JC_RESULT_OK /\ token'.type = type)
       <=> (jc_is_expected(jc_state, type) /\ LiteralAt(lit))
    /\ (result' = JC_RESULT_OK /\ token'.type = type)
       => (/\ token' = Tok(type, SkipPos, SkipPos + Len(lit))
           /\ source_pos' = SkipPos + Len(lit))

\* The step of a call: the three literal rules, and UnexpectedToken where a
\* value is expected and the source begins with one of the letters but
\* with none of the literals.
LiteralStep(letters) ==
    /\ LiteralToken(JC_TOKEN_TYPE_TRUE, JC_LIT_TRUE)
    /\ LiteralToken(JC_TOKEN_TYPE_FALSE, JC_LIT_FALSE)
    /\ LiteralToken(JC_TOKEN_TYPE_NULL, JC_LIT_NULL)
    /\ (/\ jc_is_expected(jc_state, JC_TOKEN_TYPE_VALUE)
        /\ NextChar \in letters
        /\ \A lit \in Literals : ~LiteralAt(lit))
       => result' = JC_RESULT_ERR_UNEXPECTED_TOKEN

\* C18 (as stated): ... a position that starts with any other letter of a
\* literal, or with an incomplete literal, yields UnexpectedToken.
C18_EveryLetterRejected == [][LiteralStep(LiteralLetters)]_vars

\* C18 (amended): a TRUE, FALSE or NULL token is returned iff its type is
\* expected and the source begins with exactly `true`, `false` or `null`;
\* it spans 4, 5 or 4 characters; a position that starts with another
\* letter of a literal that is not a number character, or with an
\* incomplete literal, yields UnexpectedToken (the letter `e` starts a
\* NUMBER).
C18_Literals == [][LiteralStep(LiteralLetters \ NumberLetters)]_vars

\* `[true,True]`: the literal was returned, the capitalised word rejected.
C18_Witness ==
    /\ source = <<"[", "t", "r", "u", "e", ",", "T", "r", "u", "e", "]">>
    /\ result = JC_RESULT_ERR_UNEXPECTED_TOKEN
    /\ history = <<Tok(JC_TOKEN_TYPE_ARRAY_START, 0, 1),
                   Tok(JC_TOKEN_TYPE_TRUE, 1, 5),
                   Tok(JC_TOKEN_TYPE_COMMA, 5, 6)>>
    /\ source_pos = 6

\* ------------------------------------------------------------------ C19
\* The frame at the depth index, "NONE" when no frame is open.
TopFrame ==
    IF nesting_level \in 0..(JC_MAX_NESTING_LEVEL - 1)
    THEN nesting_stack[nesting_level]
    ELSE "NONE"

FrameOf(start_type) ==
    IF start_type = JC_TOKEN_TYPE_OBJECT_START
    THEN JC_NESTING_TYPE_OBJECT
    ELSE JC_NESTING_TYPE_ARRAY

\* C19: while every call of the scan has returned Ok, OBJECT_END is
\* expected only with an OBJECT on top, ARRAY_END only with an ARRAY on
\* top, FIELD_NAME or COLON only with an OBJECT on top, COMMA only with a
\* frame open, nothing only with no frame open; and the frames of the stack
\* are the containers the returned tokens left open.
C19_ExpectedAgreesWithStack ==
    scan_end = RUNNING =>
        /\ JC_TOKEN_TYPE_OBJECT_END \subseteq expected_token_types
           => TopFrame = JC_NESTING_TYPE_OBJECT
        /\ JC_TOKEN_TYPE_ARRAY_END \subseteq expected_token_types
           => TopFrame = JC_NESTING_TYPE_ARRAY
        /\ (JC_TOKEN_TYPE_FIELD_NAME \cup JC_TOKEN_TYPE_COLON)
              \cap expected_token_types # {}
           => TopFrame = JC_NESTING_TYPE_OBJECT
        /\ JC_TOKEN_TYPE_COMMA \subseteq expected_token_types
           => nesting_level >= 0
        /\ expected_token_types = JC_NO_TOKENS_EXPECTED
           => nesting_level = JC_NO_NESTING_LEVEL
        /\ Open # Mismatch
        /\ Len(Open) = nesting_level + 1
        /\ \A i \in 1..Len(Open) : nesting_stack[i - 1] = FrameOf(Open[i])

\* An object inside an array, a colon expected after its field name.
C19_Witness ==
    /\ scan_end = RUNNING
    /\ nesting_level = 1
    /\ nesting_stack[0] = JC_NESTING_TYPE_ARRAY
    /\ nesting_stack[1] = JC_NESTING_TYPE_OBJECT
    /\ expected_token_types = JC_TOKEN_TYPE_COLON
    /\ Len(history) = 3

\* ------------------------------------------------------------------ C20
\* C20: every call that returns Ok in a scan moves the position forward,
\* the position never passes the terminating null, and the scan comes to
\* an end with a result other than Ok.
C20_ScanTerminatesInSource ==
    /\ [][(scan_end = RUNNING /\ result' = JC_RESULT_OK)
          => source_pos' > source_pos]_vars
    /\ [](source_pos <= Len(source))
    /\ <>(scan_end # RUNNING)

\* ------------------------------------------------------------------ C21
\* C21: after jc_init with a source, no call, calls after an error
\* included, returns CorruptedState: an end token is expected only while a
\* frame is open, a call that returns an end token pops one open frame,
\* and an end character met with no frame open is refused without a pop.
C21_NeverCorruptedState ==
    /\ [](result # JC_RESULT_ERR_CORRUPTED_STATE)
    /\ []((JC_TOKEN_TYPE_OBJECT_END \cup JC_TOKEN_TYPE_ARRAY_END)
             \cap expected_token_types # {}
          => nesting_level > JC_NO_NESTING_LEVEL)
    /\ [][(result' = JC_RESULT_OK /\ token'.type \in EndTypes)
          => (/\ nesting_level > JC_NO_NESTING_LEVEL
              /\ nesting_level' = nesting_level - 1)]_vars
    /\ [][(/\ nesting_level = JC_NO_NESTING_LEVEL
           /\ NextChar \in {JC_CHAR_OBJECT_END, JC_CHAR_ARRAY_END})
          => (/\ result' \in {JC_RESULT_ERR_UNEXPECTED_TOKEN,
                               JC_RESULT_ERR_GARBAGE}
              /\ nesting_level' = nesting_level)]_vars

\* A scan that went on after MaxNestingReached has closed every frame and
\* the closer left over was refused.
C21_Witness ==
    /\ scan_end = JC_RESULT_ERR_MAX_NESTING_REACHED
    /\ result = JC_RESULT_ERR_GARBAGE
    /\ nesting_level = JC_NO_NESTING_LEVEL
    /\ token.type \in EndTypes
    /\ NextChar \in {JC_CHAR_OBJECT_END, JC_CHAR_ARRAY_END}

====
